---- MODULE Spec2Model ----
(***************************************************************************)
(* A model of .agents/skills/crawl-recipe/scripts/execute_recipe.py: the   *)
(* transform pipeline, the field extractor with its fallback chain, the    *)
(* three pagination handlers and execute_recipe.                           *)
(*                                                                         *)
(* A Python str is a sequence of one-character strings, a Python list a    *)
(* sequence.  A value of type Any is tagged (None, Str, List) so that      *)
(* None, '' and [] stay three different values.  An exception that leaves  *)
(* a function is the value Raise returned in place of its result.          *)
(***************************************************************************)
EXTENDS Integers, Sequences, FiniteSets, TLC

----------------------------------------------------------------------------
(* Python values *)

None == [tag |-> "None"]

Str(s) == [tag |-> "str", s |-> s]

List(l) == [tag |-> "list", items |-> l]

Raise == [tag |-> "raise"]

\* Python's "x or ''" for an Optional[str]
OrEmpty(v) == IF v = None THEN <<>> ELSE v.s

\* truth value of an Optional[str]
Truthy(v) == v # None /\ v.s # <<>>

----------------------------------------------------------------------------
(* str helpers *)

Whitespace == {" ", "\t", "\n"}

DigitChars == <<"0", "1", "2", "3", "4", "5", "6", "7", "8", "9">>

Digits == {DigitChars[i] : i \in 1..10}

RECURSIVE LStrip(_)
LStrip(s) ==
    IF s # <<>> /\ Head(s) \in Whitespace THEN LStrip(Tail(s)) ELSE s

RECURSIVE RStrip(_)
RStrip(s) ==
    IF s # <<>> /\ s[Len(s)] \in Whitespace
    THEN RStrip(SubSeq(s, 1, Len(s) - 1))
    ELSE s

\* str.strip()
Strip(s) == RStrip(LStrip(s))

\* s.startswith(t)
StartsWith(s, t) == Len(t) <= Len(s) /\ SubSeq(s, 1, Len(t)) = t

\* s with its first n characters dropped
Drop(s, n) == SubSeq(s, n + 1, Len(s))

\* t in s
Contains(s, t) == \E i \in 0..(Len(s) - Len(t)) : StartsWith(Drop(s, i), t)

\* length of the longest prefix of s made of characters of cs
RECURSIVE SpanLen(_, _)
SpanLen(s, cs) ==
    IF s # <<>> /\ Head(s) \in cs THEN 1 + SpanLen(Tail(s), cs) ELSE 0

----------------------------------------------------------------------------
(* strip_html: re.sub(r'<[^>]+>', '', html) *)

\* length of the match of <[^>]+> at the start of s, 0 when there is none
TagLen(s) ==
    IF s = <<>> \/ Head(s) # "<" THEN 0
    ELSE LET n == SpanLen(Tail(s), {c \in {s[i] : i \in 1..Len(s)} : c # ">"})
         IN  IF n >= 1 /\ n + 2 <= Len(s) THEN n + 2 ELSE 0

RECURSIVE strip_html(_)
strip_html(html) ==
    IF html = <<>> THEN <<>>
    ELSE IF TagLen(html) > 0 THEN strip_html(Drop(html, TagLen(html)))
    ELSE <<Head(html)>> \o strip_html(Tail(html))

----------------------------------------------------------------------------
(* extract_number: re.findall(r'-?\d+\.?\d*', text.replace(',', ''))[0] *)

\* length of the match of -?\d+\.?\d* at the start of s, 0 when there is none
NumberLen(s) ==
    LET sign == IF s # <<>> /\ Head(s) = "-" THEN 1 ELSE 0
        int  == SpanLen(Drop(s, sign), Digits)
        rest == Drop(s, sign + int)
        dot  == IF rest # <<>> /\ Head(rest) = "." THEN 1 ELSE 0
        frac == SpanLen(Drop(rest, dot), Digits)
    IN  IF int = 0 THEN 0 ELSE sign + int + dot + frac

RECURSIVE FirstNumber(_)
FirstNumber(s) ==
    IF s = <<>> THEN <<>>
    ELSE IF NumberLen(s) > 0 THEN SubSeq(s, 1, NumberLen(s))
    ELSE FirstNumber(Tail(s))

extract_number(text) == FirstNumber(SelectSeq(text, LAMBDA c : c # ","))

----------------------------------------------------------------------------
(* re, for the patterns of the model: literal characters and groups.       *)
(* re.compile fails on a pattern whose parentheses do not balance.         *)

RECURSIVE ParenScan(_, _)
ParenScan(p, depth) ==
    IF p = <<>> THEN depth
    ELSE IF Head(p) = "(" THEN ParenScan(Tail(p), depth + 1)
    ELSE IF Head(p) = ")"
         THEN IF depth = 0 THEN -1 ELSE ParenScan(Tail(p), depth - 1)
    ELSE ParenScan(Tail(p), depth)

\* re.compile(p) succeeds
ReCompiles(p) == ParenScan(p, 0) = 0

\* the text a match of p spans: match.group(0)
ReLiteral(p) == SelectSeq(p, LAMBDA c : c \notin {"(", ")"})

\* match.groups() is not ()
ReHasGroups(p) == \E i \in 1..Len(p) : p[i] = "("

\* index of the ")" closing the "(" at index i
RECURSIVE ReClose(_, _, _)
ReClose(p, i, depth) ==
    IF p[i] = "(" THEN ReClose(p, i + 1, depth + 1)
    ELSE IF p[i] = ")"
         THEN IF depth = 1 THEN i ELSE ReClose(p, i + 1, depth - 1)
    ELSE ReClose(p, i + 1, depth)

\* match.group(1)
ReGroup1(p) ==
    LET open == CHOOSE i \in 1..Len(p) :
                    p[i] = "(" /\ \A j \in 1..(i - 1) : p[j] # "("
    IN  ReLiteral(SubSeq(p, open, ReClose(p, open, 0)))

\* re.sub(p, repl, s) for a pattern matching the literal lit
RECURSIVE ReSubLit(_, _, _)
ReSubLit(lit, repl, s) ==
    IF lit = <<>>
    THEN IF s = <<>> THEN repl
         ELSE repl \o <<Head(s)>> \o ReSubLit(lit, repl, Tail(s))
    ELSE IF s = <<>> THEN <<>>
    ELSE IF StartsWith(s, lit)
         THEN repl \o ReSubLit(lit, repl, Drop(s, Len(lit)))
    ELSE <<Head(s)>> \o ReSubLit(lit, repl, Tail(s))

----------------------------------------------------------------------------
(* TransformStep: type, and pattern, replacement, default_value, each an   *)
(* Optional[str].                                                          *)

TransformStep(type, pattern, replacement, default_value) ==
    [type |-> type, pattern |-> pattern, replacement |-> replacement,
     default_value |-> default_value]

\* a slip: the value is stripped before the test and returned stripped
DefaultOr_Trimmed(value, default_value) ==
    IF Strip(value) = <<>> THEN Str(OrEmpty(default_value))
    ELSE Str(Strip(value))

\* if not value.strip(): return transform.default_value or ''; return value
DefaultOr(value, default_value) ==
    IF Strip(value) = <<>> THEN Str(OrEmpty(default_value)) ELSE Str(value)

\* apply_transform on a str: the new str, or Raise (re.error)
ApplyToStr(value, transform) ==
    CASE transform.type = "trim" -> Str(Strip(value))
      [] transform.type = "strip_html" -> Str(strip_html(value))
      [] transform.type = "extract_number" -> Str(extract_number(value))
      [] transform.type = "regex" ->
            IF Truthy(transform.pattern)
            THEN IF ~ReCompiles(transform.pattern.s) THEN Raise
                 ELSE IF Contains(value, ReLiteral(transform.pattern.s))
                      THEN IF ReHasGroups(transform.pattern.s)
                           THEN Str(ReGroup1(transform.pattern.s))
                           ELSE Str(ReLiteral(transform.pattern.s))
                 ELSE Str(<<>>)
            ELSE Str(<<>>)
      [] transform.type = "replace" ->
            IF Truthy(transform.pattern)
            THEN IF ~ReCompiles(transform.pattern.s) THEN Raise
                 ELSE Str(ReSubLit(ReLiteral(transform.pattern.s),
                                   OrEmpty(transform.replacement), value))
            ELSE Str(value)
      [] transform.type = "default" ->
            DefaultOr(value, transform.default_value)
      [] OTHER -> Str(value)

\* the strs a transform is applied to: '' for None, each element of a list,
\* str(value) otherwise
Operands(value) ==
    IF value = None THEN << <<>> >>
    ELSE IF value.tag = "list" THEN value.items
    ELSE <<value.s>>

\* the value made of the transformed strs: a list for a list, else a str;
\* an element that raises makes the whole call raise
Rebuild(value, each) ==
    IF \E i \in 1..Len(each) : each[i] = Raise THEN Raise
    ELSE IF value.tag = "list" THEN List([i \in 1..Len(each) |-> each[i].s])
    ELSE each[1]

\* apply_transform
apply_transform(value, transform) ==
    Rebuild(value, [i \in 1..Len(Operands(value)) |->
                        ApplyToStr(Operands(value)[i], transform)])

\* apply_transforms: the transforms in sequence; an exception ends them
RECURSIVE apply_transforms(_, _)
apply_transforms(value, transforms) ==
    IF transforms = <<>> \/ value = Raise THEN value
    ELSE apply_transforms(apply_transform(value, Head(transforms)),
                          Tail(transforms))

----------------------------------------------------------------------------
(* The page as the collaborator shows it.  A matched element is what its   *)
(* read (text_content, inner_html or get_attribute) gives: None, a str, or *)
(* Raise.  What a selector gives is Raise (the lookup itself fails) or the *)
(* sequence of the elements it matches, in document order.                 *)

Matches(elems) == [tag |-> "matches", elems |-> elems]

ExtractConfig(type, attribute) == [type |-> type, attribute |-> attribute]

ExportField(field_name, selector, extract, transforms, multiple, fallback_selectors) ==
    [field_name |-> field_name, selector |-> selector, extract |-> extract,
     transforms |-> transforms, multiple |-> multiple,
     fallback_selectors |-> fallback_selectors]

\* extract_from_locator: an Optional[str], or Raise.  The wait for
\* visibility comes first and its failure is discarded (lines 224-227), so
\* it decides nothing and the element carries no visibility.
extract_from_locator(locator, extract) ==
    CASE extract.type = "text" ->
            IF locator = Raise THEN Raise ELSE Str(OrEmpty(locator))
      [] extract.type = "html" ->
            IF locator = Raise THEN Raise ELSE Str(OrEmpty(locator))
      [] extract.type = "attribute" ->
            IF Truthy(extract.attribute)
            THEN IF locator = Raise THEN Raise ELSE Str(OrEmpty(locator))
            ELSE None
      [] OTHER -> None

Continue == [kind |-> "continue"]

Return(value) == [kind |-> "return", value |-> value]

Raised == [kind |-> "raise"]

\* return the transformed value, or raise what a transform raised
Outcome(transformed) ==
    IF transformed = Raise THEN Raised ELSE Return(transformed)

\* transformed = apply_transforms(value, field.transforms); return
ReturnTransformed(value, transforms) ==
    Outcome(apply_transforms(value, transforms))

\* a slip: the single-valued branch's test, "if value is not None"
Values_KeepsEmpty(raw) == SelectSeq(raw, LAMBDA v : v # None)

\* values: the raw values that are truthy ("if value: values.append(value)")
Values(raw) == SelectSeq(raw, LAMBDA v : Truthy(v))

\* the list of the strs of values
ListOf(values) == List([i \in 1..Len(values) |-> values[i].s])

\* the statements under try, for one selector, given what the page answers
\* for it: return a value, go on to the next selector, or raise.
\* locators is page.locator(selector).all() for a multi-valued field and
\* page.locator(selector).first, one element at most, for a single-valued
\* one; raw holds extract_from_locator of each.
TryBody(field, answer) ==
    IF answer = Raise THEN Raised
    ELSE LET locators == IF field.multiple \/ answer.elems = <<>>
                         THEN answer.elems
                         ELSE <<Head(answer.elems)>>
             raw == [i \in 1..Len(locators) |->
                         extract_from_locator(locators[i], field.extract)]
         IN  IF locators = <<>> THEN Continue
             ELSE IF \E i \in 1..Len(raw) : raw[i] = Raise THEN Raised
             ELSE IF field.multiple /\ Values(raw) = <<>> THEN Continue
             ELSE IF ~field.multiple /\ raw[1] = None THEN Continue
             ELSE ReturnTransformed(
                      IF field.multiple THEN ListOf(Values(raw)) ELSE raw[1],
                      field.transforms)

\* except Exception: continue
Caught(r) == IF r.kind = "raise" THEN Continue ELSE r

\* a slip: no except clause, the exception leaves the function
TrySelector_NoExcept(field, answer) == TryBody(field, answer)

\* try: ... except Exception: continue
TrySelector(field, answer) == Caught(TryBody(field, answer))

\* selectors = [field.selector] + field.fallback_selectors
Selectors(field) == <<field.selector>> \o field.fallback_selectors

\* a slip: the two defaults swapped
NoMatch_Swapped(field) == IF field.multiple THEN None ELSE List(<<>>)

\* the value returned when no selector returned one
NoMatch(field) == IF field.multiple THEN List(<<>>) ELSE None

----------------------------------------------------------------------------
(* The record builder.  A page is a function from selectors to what the    *)
(* page answers for each.  A dict is the sequence of its items, in         *)
(* insertion order.                                                        *)

\* the value r returns, or else what the rest of the loop gives
ReturnedOr(r, rest) == IF r.kind = "return" THEN r.value ELSE rest

\* extract_field_value on a page: the for loop from the selector at i
RECURSIVE ExtractFrom(_, _, _)
ExtractFrom(page, field, i) ==
    IF i > Len(Selectors(field)) THEN NoMatch(field)
    ELSE ReturnedOr(TrySelector(field, page[Selectors(field)[i]]),
                    ExtractFrom(page, field, i + 1))

extract_field_value(page, field) == ExtractFrom(page, field, 1)

\* a slip: the new item goes to the front
DictSet_Front(d, key, value) == <<[k |-> key, v |-> value]>> \o d

\* d[key] = value
DictSet(d, key, value) ==
    IF \E i \in 1..Len(d) : d[i].k = key
    THEN [i \in 1..Len(d) |->
             IF d[i].k = key THEN [k |-> key, v |-> value] ELSE d[i]]
    ELSE Append(d, [k |-> key, v |-> value])

\* extract_data_from_page: the for loop over the fields from the one at i
RECURSIVE ExtractFields(_, _, _, _)
ExtractFields(page, fields, i, result) ==
    IF i > Len(fields) THEN result
    ELSE ExtractFields(page, fields, i + 1,
             DictSet(result, fields[i].field_name,
                     extract_field_value(page, fields[i])))

extract_data_from_page(page, recipe) ==
    ExtractFields(page, recipe.fields, 1, <<>>)

\* bool(v) of a value
PyBool(v) ==
    CASE v = None -> FALSE
      [] v.tag = "str" -> v.s # <<>>
      [] v.tag = "list" -> v.items # <<>>

\* a slip: only None is left out, [] and '' count as data
HasData_NotNone(data) == \E i \in 1..Len(data) : data[i].v # None

\* any(v for v in data.values() if v not in (None, '', []))
HasData(data) ==
    \E i \in 1..Len(data) :
        data[i].v \notin {None, Str(<<>>), List(<<>>)} /\ PyBool(data[i].v)

\* a slip: the record is never appended
AppendIfData_Never(results, data) == results

\* a slip: the record is appended whatever it holds
AppendIfData_Always(results, data) == Append(results, data)

\* if has_data: results.append(data)
AppendIfData(results, data) ==
    IF HasData(data) THEN Append(results, data) ELSE results

PaginationConfig(type, selector, url_template, max_pages, wait_ms) ==
    [type |-> type, selector |-> selector, url_template |-> url_template,
     max_pages |-> max_pages, wait_ms |-> wait_ms]

CrawlRecipe(fields, pagination) == [fields |-> fields, pagination |-> pagination]

----------------------------------------------------------------------------
(* Bounds and the inputs drawn within them *)

\* most elements a selector matches
MaxElems == 2

\* most fallback selectors of a field
MaxFallbacks == 1

RECURSIVE SeqsUpTo(_, _)
\* the sequences over S of length at most n
SeqsUpTo(S, n) ==
    IF n = 0 THEN {<<>>}
    ELSE SeqsUpTo(S, n - 1) \cup
         {Append(q, e) : q \in {r \in SeqsUpTo(S, n - 1) : Len(r) = n - 1},
                         e \in S}

RawStrings == {<<>>, <<" ">>, <<" ", "a">>}

\* what reading one element gives
ReadOutcomes == {None, Raise} \cup {Str(r) : r \in RawStrings}

\* the reads of the elements of one answer, as far as they are made: the
\* read that raises is the last one made
ReadSeqs(n) ==
    {q \in SeqsUpTo(ReadOutcomes, n) :
        \A i \in 1..(Len(q) - 1) : q[i] # Raise}

\* what the page answers for the selector of a multi-valued field
AnswersAll == {Raise} \cup {Matches(e) : e \in ReadSeqs(MaxElems)}

\* and of a single-valued one: .first narrows the locator to one element
AnswersFirst == {Raise} \cup {Matches(e) : e \in ReadSeqs(1)}

Answers(multiple) == IF multiple THEN AnswersAll ELSE AnswersFirst

Trim == TransformStep("trim", None, None, None)

Default(value) == TransformStep("default", None, None, Str(value))

Regex(pattern) == TransformStep("regex", Str(pattern), None, None)

Replace(pattern, replacement) ==
    TransformStep("replace", Str(pattern), Str(replacement), None)

BadPattern == <<"(">>

FieldPipelines ==
    { <<>>,
      <<Trim, Default(<<"x">>)>>,
      <<Regex(<<"(", "a", ")">>)>>,
      <<Trim, Regex(BadPattern)>>,
      <<Replace(BadPattern, <<>>)>> }

FieldExtracts ==
    { ExtractConfig("text", None),
      ExtractConfig("html", None),
      ExtractConfig("attribute", Str(<<"h">>)),
      ExtractConfig("attribute", None) }

AllSelectors == <<"s1", "s2", "s3", "s4">>

FieldSpecs ==
    { ExportField("f", AllSelectors[1], e, t, m,
                  SubSeq(AllSelectors, 2, n + 1)) :
        e \in FieldExtracts, t \in FieldPipelines, m \in BOOLEAN,
        n \in 0..MaxFallbacks }

----------------------------------------------------------------------------
(* str.format(page=n) of a url_template *)

\* str(n) of an int n >= 0
RECURSIVE ToDigits(_)
ToDigits(n) ==
    IF n < 10 THEN <<DigitChars[n + 1]>>
    ELSE ToDigits(n \div 10) \o <<DigitChars[(n % 10) + 1]>>

\* the position of the first "}" of t, 0 when there is none
RECURSIVE CloseAt(_, _)
CloseAt(t, i) ==
    IF i > Len(t) THEN 0
    ELSE IF t[i] = "}" THEN i
    ELSE CloseAt(t, i + 1)

\* prefix + rest, unless the rest raised
Cat(prefix, rest) == IF rest = Raise THEN Raise ELSE Str(prefix \o rest.s)

\* the name of the keyword argument
PageField == <<"p", "a", "g", "e">>

\* template.format(page=n): "{{" and "}}" are braces, a lone "}" is a
\* ValueError; a field "{name}" is the page number for {page}, a KeyError
\* or IndexError for any other name, a ValueError when it is not closed.
\* Templates with a conversion or a format spec are not drawn.
RECURSIVE Format(_, _)
Format(t, n) ==
    IF t = <<>> THEN Str(<<>>)
    ELSE IF StartsWith(t, <<"{", "{">>) THEN Cat(<<"{">>, Format(Drop(t, 2), n))
    ELSE IF StartsWith(t, <<"}", "}">>) THEN Cat(<<"}">>, Format(Drop(t, 2), n))
    ELSE IF Head(t) = "}" THEN Raise
    ELSE IF Head(t) # "{" THEN Cat(<<Head(t)>>, Format(Tail(t), n))
    ELSE IF CloseAt(t, 1) = 0 THEN Raise
    ELSE IF SubSeq(t, 2, CloseAt(t, 1) - 1) # PageField THEN Raise
    ELSE Cat(ToDigits(n), Format(Drop(t, CloseAt(t, 1)), n))

----------------------------------------------------------------------------
(* The recipe document and parse_recipe *)

\* d.get(key, default), a dict being the record of its keys
Get(d, key, default) == IF key \in DOMAIN d THEN d[key] ELSE default

\* PaginationConfig.max_pages when the recipe gives none
DefaultMaxPages == 1

\* PaginationConfig.wait_ms when the recipe gives none
DefaultWaitMs == 1000

\* a document json.load cannot read, or one without a required key
Malformed == [tag |-> "malformed"]

\* a document without "pagination": its fields, already as ExportFields
RecipeDoc(fields) == [fields |-> fields]

\* a document with "pagination"
PaginatedDoc(fields, pagination) ==
    [fields |-> fields, pagination |-> pagination]

\* parse_recipe: the dataclasses of the document, the patterns of its
\* transforms as they are written
parse_recipe(d) ==
    IF d = Malformed THEN Raise
    ELSE CrawlRecipe(d.fields,
             IF "pagination" \notin DOMAIN d THEN None
             ELSE PaginationConfig(d.pagination.type,
                      Get(d.pagination, "selector", None),
                      Get(d.pagination, "url_template", None),
                      Get(d.pagination, "max_pages", DefaultMaxPages),
                      Get(d.pagination, "wait_ms", DefaultWaitMs)))

----------------------------------------------------------------------------
(* The recipes and pages drawn for the pagination handlers *)

\* largest max_pages drawn, beside the values the properties name
MaxPages == 3

WaitValues == {0, DefaultWaitMs}

TitleField ==
    ExportField("title", "s1", ExtractConfig("text", None), <<Trim>>, FALSE, <<>>)

ItemsField ==
    ExportField("items", "s1", ExtractConfig("text", None), <<>>, TRUE, <<>>)

\* a field whose transform pattern does not compile
PriceField ==
    ExportField("price", "s1", ExtractConfig("text", None), <<Regex(BadPattern)>>, FALSE, <<>>)

FieldLists == { <<TitleField>>, <<ItemsField>> }

\* the page on which the fields' selector is answered by a
PageOf(a) == [sel \in {"s1"} |-> a]

\* the states the page is seen in: nothing matches, one element, two other
\* elements, the lookup fails
PageStates ==
    { PageOf(Matches(<<>>)),
      PageOf(Matches(<<Str(<<"a">>)>>)),
      PageOf(Matches(<<Str(<<"b">>), Str(<<"a">>)>>)),
      PageOf(Raise) }

\* the selector of the next button
ButtonSelectors == {None, Str(<<"n">>)}

\* what next_button.count() gives
CountOutcomes == {0, 1, 2}

\* what get_attribute gives on the button: no attribute, a bare attribute,
\* a value, an exception
AttributeOutcomes ==
    {None, Str(<<>>), Str(<<"t", "r", "u", "e">>), Raise}

NextButtonRecipes ==
    {CrawlRecipe(f, None) : f \in FieldLists} \cup
    {CrawlRecipe(f, PaginationConfig("next_button", sel, None, n, w)) :
        f \in FieldLists, sel \in ButtonSelectors,
        n \in (-1..MaxPages) \cup {10}, w \in WaitValues}

\* "u{page}"
PageTemplate == <<"u", "{", "p", "a", "g", "e", "}">>

\* url_templates: none, '', one with the page number, one without, and
\* three that format rejects
UrlTemplates ==
    {None, Str(<<>>), Str(PageTemplate), Str(<<"u">>),
     Str(<<"u", "{">>), Str(<<"u", "}">>), Str(<<"{", "n", "}">>)}

UrlPatternRecipes ==
    {CrawlRecipe(f, None) : f \in FieldLists} \cup
    {CrawlRecipe(f, PaginationConfig("url_pattern", None, t, n, w)) :
        f \in FieldLists, t \in UrlTemplates,
        n \in (-1..MaxPages) \cup {5}, w \in WaitValues}

InfiniteScrollRecipes ==
    {CrawlRecipe(f, None) : f \in FieldLists} \cup
    {CrawlRecipe(f, PaginationConfig("infinite_scroll", None, None, n, w)) :
        f \in FieldLists, n \in (-1..MaxPages) \cup {20}, w \in WaitValues}

----------------------------------------------------------------------------
(* State *)

VARIABLES
    field,      \* extract_field_value: its argument
    idx,        \* position of the for loop in selectors, from 1
    queried,    \* the selectors handed to page.locator so far
    seen,       \* for each of them, what kind of answer the page gave
    answer,     \* the last of these answers, in full
    fvalue,     \* the value returned
    fpc,        \* "loop", "returned", or "raised": an exception left the call
    page_now,   \* extract_data_from_page: its page, when it is called alone
    tinput,     \* apply_transforms, called alone: the value it is given
    tvalue,     \* its value now
    applied     \* the transforms applied to it so far

VARIABLES
    recipe,     \* the CrawlRecipe
    pc,         \* where control is
    results,    \* the results of the handler, then of execute_recipe
    data,       \* the record built last (data, current_data)
    reason,     \* why the pagination loop ended
    nBuilt,     \* how many records the handler built
    nData,      \* how many of them had data
    failedAt    \* the results at the first pagination step that raised

VARIABLES
    current_page,   \* handle_next_button_pagination
    lookups,        \* what each lookup of the next button found
    clicks,         \* how many clicks were made
    attrs           \* the disabled and aria-disabled attributes of the button
                    \* found and not yet clicked

VARIABLES
    page_num,   \* handle_url_pattern_pagination
    navs,       \* the urls handed to page.goto
    built       \* the records built, in page order

VARIABLES
    scroll_attempts,        \* handle_infinite_scroll_pagination
    no_new_content_count,
    last_results_count,
    prevLen,    \* the length of the multi-valued field in the record before
    stale       \* how many records in a row did not make it longer

VARIABLES
    doc,                \* execute_recipe: the document at recipe_path
    output_format,
    additional_wait,
    playwright,         \* "none", "started", or "stopped"
    browser,            \* "none", "open", or "closed" by browser.close()
    output,             \* what is written at output_path
    exc                 \* the step whose exception is leaving execute_recipe

fieldVars ==
    <<field, idx, queried, seen, answer, fvalue, fpc, page_now,
      tinput, tvalue, applied>>

\* apply_transforms is not called alone
TransformIdle ==
    /\ tinput = None
    /\ tvalue = None
    /\ applied = <<>>

nbVars == <<current_page, lookups, clicks, attrs>>

upVars == <<page_num, navs, built>>

scVars ==
    <<scroll_attempts, no_new_content_count, last_results_count, prevLen, stale>>

runVars ==
    <<doc, output_format, additional_wait, playwright, browser, output, exc>>

vars ==
    <<fieldVars, recipe, pc, results, data, reason, nBuilt, nData, failedAt,
      nbVars, upVars, scVars, runVars>>

\* no field is being extracted
FieldIdle ==
    /\ field = None
    /\ idx = 0
    /\ queried = <<>>
    /\ seen = <<>>
    /\ answer = None
    /\ fvalue = None
    /\ fpc = "idle"
    /\ page_now = None
    /\ TransformIdle

\* a handler is about to be called
HandlerFresh ==
    /\ results = <<>>
    /\ data = None
    /\ reason = "running"
    /\ nBuilt = 0
    /\ nData = 0
    /\ failedAt = None
    /\ current_page = 0
    /\ lookups = <<>>
    /\ clicks = 0
    /\ attrs = None
    /\ page_num = 0
    /\ navs = <<>>
    /\ built = <<>>
    /\ scroll_attempts = 0
    /\ no_new_content_count = 0
    /\ last_results_count = 0
    /\ prevLen = 0
    /\ stale = 0

\* execute_recipe is not running
RunIdle ==
    /\ doc = None
    /\ output_format = "json"
    /\ additional_wait = 0
    /\ playwright = "none"
    /\ browser = "none"
    /\ output = None
    /\ exc = "none"

\* no handler is in use
HandlerIdle ==
    /\ recipe = None
    /\ pc = "idle"
    /\ HandlerFresh
    /\ RunIdle

----------------------------------------------------------------------------
(* extract_field_value, one selector at a time *)

\* the kind of an answer: the lookup or a read raised ("error"), no element
\* matched ("none"), every matched element read as None or '' ("empty"), or
\* some element read as a non-empty str ("value")
AnswerKind(a) ==
    IF a = Raise THEN "error"
    ELSE IF a.elems = <<>> THEN "none"
    ELSE IF \E i \in 1..Len(a.elems) : a.elems[i] = Raise THEN "error"
    ELSE IF \A i \in 1..Len(a.elems) : ~Truthy(a.elems[i]) THEN "empty"
    ELSE "value"

InitField ==
    /\ field \in FieldSpecs
    /\ idx = 1
    /\ queried = <<>>
    /\ seen = <<>>
    /\ answer = None
    /\ fvalue = None
    /\ fpc = "loop"
    /\ page_now = None
    /\ TransformIdle
    /\ HandlerIdle

\* the variables extract_field_value leaves alone
notField ==
    <<recipe, pc, results, data, reason, nBuilt, nData, failedAt,
      nbVars, upVars, scVars, runVars>>

\* one turn of "for selector in selectors"
FieldTry ==
    /\ fpc = "loop"
    /\ idx <= Len(Selectors(field))
    /\ \E a \in Answers(field.multiple) :
          \E r \in {TrySelector(field, a)} :
              /\ queried' = Append(queried, Selectors(field)[idx])
              /\ seen' = Append(seen, AnswerKind(a))
              /\ answer' = a
              /\ idx' = IF r.kind = "continue" THEN idx + 1 ELSE idx
              /\ fvalue' = IF r.kind = "return" THEN r.value ELSE fvalue
              /\ fpc' = CASE r.kind = "return" -> "returned"
                          [] r.kind = "raise" -> "raised"
                          [] OTHER -> "loop"
    /\ UNCHANGED <<field, page_now, tinput, tvalue, applied, notField>>

\* the loop is over: return None if not field.multiple else []
FieldExhausted ==
    /\ fpc = "loop"
    /\ idx > Len(Selectors(field))
    /\ fvalue' = NoMatch(field)
    /\ fpc' = "returned"
    /\ UNCHANGED <<field, idx, queried, seen, answer, page_now,
                   tinput, tvalue, applied, notField>>

NextField == FieldTry \/ FieldExhausted

SpecField == InitField /\ [][NextField]_vars

----------------------------------------------------------------------------
(* handle_next_button_pagination *)

\* the handler returns results
Returns(why) == pc' = "returned" /\ reason' = why

\* an exception leaves the handler
Raises(why) == pc' = "raised" /\ reason' = why

\* a pagination step raised: the results at that point are kept for the
\* record
Failing == failedAt' = IF failedAt = None THEN List(results) ELSE failedAt

\* a slip: one page more than max_pages
PagesLeft_OneMore(n, max_pages) == n <= max_pages + 1

\* a slip: the last page is left out
PagesLeft_Strict(n, max_pages) == n < max_pages

\* while current_page <= pagination.max_pages
PagesLeft(n, max_pages) == n <= max_pages

\* results = []; if not pagination: return results; current_page = 1
NB_Enter ==
    /\ pc = "nb_enter"
    /\ results' = <<>>
    /\ IF recipe.pagination = None
       THEN Returns("NoPagination") /\ UNCHANGED current_page
       ELSE pc' = "nb_loop" /\ current_page' = 1 /\ UNCHANGED reason
    /\ UNCHANGED <<fieldVars, recipe, data, nBuilt, nData, failedAt,
                   lookups, clicks, attrs, upVars, scVars, runVars>>

\* the loop test, the record of the current page and its append, up to
\* "if pagination.selector"
NB_Extract ==
    /\ pc = "nb_loop"
    /\ IF PagesLeft(current_page, recipe.pagination.max_pages)
       THEN \E page \in PageStates :
               \E d \in {extract_data_from_page(page, recipe)} :
                   /\ data' = d
                   /\ results' = AppendIfData(results, d)
                   /\ nBuilt' = nBuilt + 1
                   /\ nData' = nData + (IF HasData(d) THEN 1 ELSE 0)
                   /\ IF Truthy(recipe.pagination.selector)
                      THEN pc' = "nb_lookup" /\ UNCHANGED reason
                      ELSE Returns("NoSelector")
       ELSE /\ Returns("MaxPages")
            /\ UNCHANGED <<data, results, nBuilt, nData>>
    /\ UNCHANGED <<fieldVars, recipe, failedAt, nbVars, upVars, scVars,
                   runVars>>

\* disabled = get_attribute('disabled') or get_attribute('aria-disabled'):
\* the second read is made only when the first is falsy
DisabledOr(disabled, aria) == IF PyBool(disabled) THEN disabled ELSE aria

\* the lookup of the button and of its disabled state
NB_Lookup ==
    /\ pc = "nb_lookup"
    /\ \/ \E count \in CountOutcomes :
            /\ lookups' = Append(lookups, IF count = 0 THEN "none" ELSE "match")
            /\ IF count = 0
               THEN /\ Returns("NoNextButton")
                    /\ UNCHANGED <<failedAt, attrs>>
               ELSE \E disabled \in AttributeOutcomes,
                       aria \in AttributeOutcomes :
                       /\ attrs' = [disabled |-> disabled, aria |-> aria]
                       /\ IF disabled = Raise
                             \/ (~PyBool(disabled) /\ aria = Raise)
                          THEN Returns("NavigationError") /\ Failing
                          ELSE /\ UNCHANGED failedAt
                               /\ IF PyBool(DisabledOr(disabled, aria))
                                  THEN Returns("ButtonDisabled")
                                  ELSE pc' = "nb_click" /\ UNCHANGED reason
       \/ /\ lookups' = Append(lookups, "error")
          /\ Returns("NavigationError")
          /\ Failing
          /\ UNCHANGED attrs
    /\ UNCHANGED <<fieldVars, recipe, results, data, nBuilt, nData,
                   current_page, clicks, upVars, scVars, runVars>>

\* next_button.click(); page.wait_for_timeout(wait_ms); current_page += 1
NB_Click ==
    /\ pc = "nb_click"
    /\ attrs' = None
    /\ \/ /\ clicks' = clicks + 1
          /\ \/ /\ current_page' = current_page + 1
                /\ pc' = "nb_loop"
                /\ UNCHANGED <<reason, failedAt>>
             \/ /\ Returns("NavigationError")
                /\ Failing
                /\ UNCHANGED current_page
       \/ /\ Returns("NavigationError")
          /\ Failing
          /\ UNCHANGED <<clicks, current_page>>
    /\ UNCHANGED <<fieldVars, recipe, results, data, nBuilt, nData,
                   lookups, upVars, scVars, runVars>>

InitNext ==
    /\ FieldIdle
    /\ recipe \in NextButtonRecipes
    /\ pc = "nb_enter"
    /\ HandlerFresh
    /\ RunIdle

NextNB == NB_Enter \/ NB_Extract \/ NB_Lookup \/ NB_Click

SpecNext == InitNext /\ [][NextNB]_vars

----------------------------------------------------------------------------
(* handle_url_pattern_pagination *)

\* results = []; if not pagination or not pagination.url_template: return
UP_Enter ==
    /\ pc = "up_enter"
    /\ results' = <<>>
    /\ IF recipe.pagination = None \/ ~Truthy(recipe.pagination.url_template)
       THEN Returns("NoTemplate") /\ UNCHANGED page_num
       ELSE pc' = "up_loop" /\ page_num' = 1 /\ UNCHANGED reason
    /\ UNCHANGED <<fieldVars, recipe, data, nBuilt, nData, failedAt,
                   navs, built, nbVars, scVars, runVars>>

\* the next page_num of range(1, max_pages + 1), its url, and under try
\* page.goto(url) and, if pagination.wait_ms, page.wait_for_timeout.  The
\* exception of format is raised outside try.
UP_Goto ==
    /\ pc = "up_loop"
    /\ IF page_num > recipe.pagination.max_pages
       THEN Returns("LoopExhausted") /\ UNCHANGED <<navs, failedAt>>
       ELSE \E url \in {Format(recipe.pagination.url_template.s, page_num)} :
               IF url = Raise
               THEN Raises("FormatError") /\ UNCHANGED <<navs, failedAt>>
               ELSE /\ navs' = Append(navs, url)
                    /\ \/ pc' = "up_extract" /\ UNCHANGED <<reason, failedAt>>
                       \/ Returns("NavigationError") /\ Failing
                       \/ /\ recipe.pagination.wait_ms # 0
                          /\ Returns("NavigationError")
                          /\ Failing
    /\ UNCHANGED <<fieldVars, recipe, results, data, nBuilt, nData,
                   page_num, built, nbVars, scVars, runVars>>

\* the record of the page: appended if it has data, else break
UP_Extract ==
    /\ pc = "up_extract"
    /\ \E page \in PageStates :
          \E d \in {extract_data_from_page(page, recipe)} :
              /\ data' = d
              /\ built' = Append(built, d)
              /\ nBuilt' = nBuilt + 1
              /\ nData' = nData + (IF HasData(d) THEN 1 ELSE 0)
              /\ results' = AppendIfData(results, d)
              /\ IF HasData(d)
                 THEN pc' = "up_loop" /\ page_num' = page_num + 1
                      /\ UNCHANGED reason
                 ELSE Returns("EmptyPage") /\ UNCHANGED page_num
    /\ UNCHANGED <<fieldVars, recipe, failedAt, navs, nbVars, scVars, runVars>>

InitUrl ==
    /\ FieldIdle
    /\ recipe \in UrlPatternRecipes
    /\ pc = "up_enter"
    /\ HandlerFresh
    /\ RunIdle

NextUP == UP_Enter \/ UP_Goto \/ UP_Extract

SpecUrl == InitUrl /\ [][NextUP]_vars

----------------------------------------------------------------------------
(* handle_infinite_scroll_pagination *)

\* max_no_new_content
MaxNoNewContent == 3

\* d.get(key, default)
DictGet(d, key, default) ==
    IF \E i \in 1..Len(d) : d[i].k = key
    THEN d[CHOOSE i \in 1..Len(d) : d[i].k = key].v
    ELSE default

\* the for loop over recipe.fields breaks: some multi-valued field of
\* current_data is a list longer than last_results_count
SomeListLonger(fields, current_data, last) ==
    \E i \in 1..Len(fields) :
        /\ fields[i].multiple
        /\ DictGet(current_data, fields[i].field_name, List(<<>>)).tag = "list"
        /\ Len(DictGet(current_data, fields[i].field_name, List(<<>>)).items) > last

\* a slip: a record with data leaves the count as it is
NoNewContent_KeepsCount(fields, res, current_data, count, last) ==
    IF HasData(current_data) THEN count ELSE count + 1

\* no_new_content_count after the record current_data
NoNewContent(fields, res, current_data, count, last) ==
    IF (\E i \in 1..Len(fields) : fields[i].multiple) /\ res # <<>>
    THEN IF SomeListLonger(fields, current_data, last) THEN 0 ELSE count + 1
    ELSE IF HasData(current_data) THEN 0
    ELSE count + 1

\* a slip: the record is compared with every record of the results
AppendIfNew_Anywhere(res, current_data) ==
    IF HasData(current_data)
       /\ \A i \in 1..Len(res) : current_data # res[i]
    THEN Append(res, current_data)
    ELSE res

\* if has_data: if not results or current_data != results[-1]: append
AppendIfNew(res, current_data) ==
    IF HasData(current_data) /\ (res = <<>> \/ current_data # res[Len(res)])
    THEN Append(res, current_data)
    ELSE res

\* the length of the longest multi-valued field of a record
LongestList(fields, d) ==
    LET lens == {0} \cup
                {Len(DictGet(d, fields[i].field_name, List(<<>>)).items) :
                    i \in {j \in 1..Len(fields) : fields[j].multiple}}
    IN  CHOOSE n \in lens : \A m \in lens : m <= n

\* results = []; if not pagination: return results; the counters
SC_Enter ==
    /\ pc = "sc_enter"
    /\ results' = <<>>
    /\ IF recipe.pagination = None
       THEN /\ Returns("NoPagination")
            /\ UNCHANGED <<scroll_attempts, no_new_content_count,
                           last_results_count>>
       ELSE /\ pc' = "sc_loop"
            /\ last_results_count' = 0
            /\ scroll_attempts' = 0
            /\ no_new_content_count' = 0
            /\ UNCHANGED reason
    /\ UNCHANGED <<fieldVars, recipe, data, nBuilt, nData, failedAt,
                   prevLen, stale, nbVars, upVars, runVars>>

\* the loop test, the record of the page as it is, the count of records
\* without new content and the append, up to the scroll
SC_Check ==
    /\ pc = "sc_loop"
    /\ IF scroll_attempts < recipe.pagination.max_pages
       THEN \E page \in PageStates :
               \E d \in {extract_data_from_page(page, recipe)} :
                   /\ data' = d
                   /\ nBuilt' = nBuilt + 1
                   /\ nData' = nData + (IF HasData(d) THEN 1 ELSE 0)
                   /\ prevLen' = LongestList(recipe.fields, d)
                   /\ stale' = IF LongestList(recipe.fields, d) > prevLen
                               THEN 0
                               ELSE IF stale < MaxNoNewContent THEN stale + 1
                               ELSE stale
                   /\ \E c \in {NoNewContent(recipe.fields, results, d,
                                    no_new_content_count, last_results_count)} :
                         /\ no_new_content_count' = c
                         /\ IF c >= MaxNoNewContent
                            THEN Returns("Stalled") /\ UNCHANGED results
                            ELSE /\ results' = AppendIfNew(results, d)
                                 /\ pc' = "sc_scroll"
                                 /\ UNCHANGED reason
       ELSE /\ Returns("MaxScrolls")
            /\ UNCHANGED <<data, results, nBuilt, nData, prevLen, stale,
                           no_new_content_count>>
    /\ UNCHANGED <<fieldVars, recipe, failedAt, scroll_attempts,
                   last_results_count, nbVars, upVars, runVars>>

\* page.evaluate(scrollTo), page.wait_for_timeout(wait_ms), neither under
\* try; scroll_attempts += 1
SC_Scroll ==
    /\ pc = "sc_scroll"
    /\ \/ /\ scroll_attempts' = scroll_attempts + 1
          /\ pc' = "sc_loop"
          /\ UNCHANGED <<reason, failedAt>>
       \/ /\ Raises("ScrollError")
          /\ Failing
          /\ UNCHANGED scroll_attempts
       \/ /\ Raises("WaitError")
          /\ Failing
          /\ UNCHANGED scroll_attempts
    /\ UNCHANGED <<fieldVars, recipe, results, data, nBuilt, nData,
                   no_new_content_count, last_results_count, prevLen, stale,
                   nbVars, upVars, runVars>>

InitScroll ==
    /\ FieldIdle
    /\ recipe \in InfiniteScrollRecipes
    /\ pc = "sc_enter"
    /\ HandlerFresh
    /\ RunIdle

NextSC == SC_Enter \/ SC_Check \/ SC_Scroll

SpecScroll == InitScroll /\ [][NextSC]_vars

----------------------------------------------------------------------------
(* execute_recipe *)

\* '; '.join(str(x) for x in v)
RECURSIVE Join(_)
Join(items) ==
    IF items = <<>> THEN <<>>
    ELSE IF Len(items) = 1 THEN items[1]
    ELSE items[1] \o <<";", " ">> \o Join(Tail(items))

\* csv_row: the lists of a record as strs
CsvRow(row) ==
    [i \in 1..Len(row) |->
        IF row[i].v.tag = "list"
        THEN [k |-> row[i].k, v |-> Str(Join(row[i].v.items))]
        ELSE row[i]]

\* what json.dump, or the DictWriter, writes of res
Written(format, res) ==
    IF format = "json" THEN [format |-> "json", rows |-> res]
    ELSE [format |-> "csv", rows |-> [i \in 1..Len(res) |-> CsvRow(res[i])]]

\* the documents at recipe_path
RunFieldLists == { <<TitleField>>, <<ItemsField>>, <<PriceField>> }

\* most pages of the recipes that are run
RunPages == 2

RunPaginations ==
    {[type |-> "none"],
     [type |-> "next_button", selector |-> Str(<<"n">>), max_pages |-> RunPages],
     [type |-> "url_pattern", url_template |-> Str(PageTemplate),
      max_pages |-> RunPages, wait_ms |-> 0],
     [type |-> "url_pattern", url_template |-> Str(<<"u", "{">>)],
     [type |-> "infinite_scroll", max_pages |-> RunPages]}

RunDocs ==
    {Malformed} \cup
    {RecipeDoc(f) : f \in RunFieldLists} \cup
    {PaginatedDoc(f, p) : f \in RunFieldLists, p \in RunPaginations}

\* --wait
AdditionalWaits == {0, 500}

\* an exception leaves the step at: control goes to where
RunRaises(at, where) == exc' = at /\ pc' = where

\* recipe = parse_recipe(recipe_path), before the browser is launched
Load ==
    /\ pc = "load"
    /\ \E r \in {parse_recipe(doc)} :
          IF r = Raise
          THEN RunRaises("load", "done") /\ UNCHANGED recipe
          ELSE recipe' = r /\ pc' = "launch" /\ UNCHANGED exc
    /\ UNCHANGED <<fieldVars, results, data, reason, nBuilt, nData, failedAt,
                   nbVars, upVars, scVars, doc, output_format,
                   additional_wait, playwright, browser, output>>

\* with sync_playwright() as p: browser = p.chromium.launch(...)
Launch ==
    /\ pc = "launch"
    /\ playwright' = "started"
    /\ \/ browser' = "open" /\ pc' = "new_context" /\ UNCHANGED exc
       \/ RunRaises("launch", "with_exit") /\ UNCHANGED browser
    /\ UNCHANGED <<fieldVars, recipe, results, data, reason, nBuilt, nData,
                   failedAt, nbVars, upVars, scVars, doc, output_format,
                   additional_wait, output>>

\* context = browser.new_context(...), before try
NewContext ==
    /\ pc = "new_context"
    /\ \/ pc' = "new_page" /\ UNCHANGED exc
       \/ RunRaises("new_context", "with_exit")
    /\ UNCHANGED <<fieldVars, recipe, results, data, reason, nBuilt, nData,
                   failedAt, nbVars, upVars, scVars, doc, output_format,
                   additional_wait, playwright, browser, output>>

\* page = context.new_page(), before try
NewPage ==
    /\ pc = "new_page"
    /\ \/ pc' = "goto" /\ UNCHANGED exc
       \/ RunRaises("new_page", "with_exit")
    /\ UNCHANGED <<fieldVars, recipe, results, data, reason, nBuilt, nData,
                   failedAt, nbVars, upVars, scVars, doc, output_format,
                   additional_wait, playwright, browser, output>>

\* try: page.goto(url); if additional_wait: page.wait_for_timeout(...)
Goto ==
    /\ pc = "goto"
    /\ \/ pc' = "dispatch" /\ UNCHANGED exc
       \/ RunRaises("goto", "finally")
       \/ additional_wait # 0 /\ RunRaises("wait", "finally")
    /\ UNCHANGED <<fieldVars, recipe, results, data, reason, nBuilt, nData,
                   failedAt, nbVars, upVars, scVars, doc, output_format,
                   additional_wait, playwright, browser, output>>

\* the pc at which the handler of a pagination type starts, "single" for a
\* type that has none
HandlerOf(type) ==
    CASE type = "next_button" -> "nb_enter"
      [] type = "url_pattern" -> "up_enter"
      [] type = "infinite_scroll" -> "sc_enter"
      [] OTHER -> "single"

\* a slip: the one record is kept only if it has data, as the handlers do
SinglePage_IfData(d) == IF HasData(d) THEN <<d>> ELSE <<>>

\* results = [data]
SinglePage(d) == <<d>>

\* results = []; the handler of recipe.pagination.type is called, or the
\* one record of the page is the results
Dispatch ==
    /\ pc = "dispatch"
    /\ IF recipe.pagination # None
          /\ HandlerOf(recipe.pagination.type) # "single"
       THEN /\ pc' = HandlerOf(recipe.pagination.type)
            /\ results' = <<>>
            /\ UNCHANGED <<data, nBuilt, nData>>
       ELSE \E page \in PageStates :
               \E d \in {extract_data_from_page(page, recipe)} :
                   /\ data' = d
                   /\ results' = SinglePage(d)
                   /\ nBuilt' = nBuilt + 1
                   /\ nData' = nData + (IF HasData(d) THEN 1 ELSE 0)
                   /\ pc' = "save"
    /\ UNCHANGED <<fieldVars, recipe, reason, failedAt, nbVars, upVars,
                   scVars, runVars>>

\* the handler is left: its results are assigned, or its exception goes on
\* to except
HandlerDone ==
    /\ pc \in {"returned", "raised"}
    /\ doc # None
    /\ IF pc = "returned"
       THEN pc' = "save" /\ UNCHANGED exc
       ELSE RunRaises("pagination", "finally")
    /\ UNCHANGED <<fieldVars, recipe, results, data, reason, nBuilt, nData,
                   failedAt, nbVars, upVars, scVars, doc, output_format,
                   additional_wait, playwright, browser, output>>

\* json.dump(results), or the csv rows when there are results
Save ==
    /\ pc = "save"
    /\ \/ /\ output_format = "json" \/ results # <<>>
          /\ \/ /\ output' = Written(output_format, results)
                /\ pc' = "finally"
                /\ UNCHANGED exc
             \/ RunRaises("write", "finally") /\ UNCHANGED output
       \/ /\ output_format # "json" /\ results = <<>>
          /\ pc' = "finally"
          /\ UNCHANGED <<output, exc>>
    /\ UNCHANGED <<fieldVars, recipe, results, data, reason, nBuilt, nData,
                   failedAt, nbVars, upVars, scVars, doc, output_format,
                   additional_wait, playwright, browser>>

\* except Exception: raise; finally: browser.close()
Finally ==
    /\ pc = "finally"
    /\ browser' = "closed"
    /\ pc' = "with_exit"
    /\ UNCHANGED <<fieldVars, recipe, results, data, reason, nBuilt, nData,
                   failedAt, nbVars, upVars, scVars, doc, output_format,
                   additional_wait, playwright, output, exc>>

\* the with statement is left: execute_recipe returns, or raises exc
WithExit ==
    /\ pc = "with_exit"
    /\ playwright' = "stopped"
    /\ pc' = "done"
    /\ UNCHANGED <<fieldVars, recipe, results, data, reason, nBuilt, nData,
                   failedAt, nbVars, upVars, scVars, doc, output_format,
                   additional_wait, browser, output, exc>>

InitRun ==
    /\ FieldIdle
    /\ recipe = None
    /\ pc = "load"
    /\ HandlerFresh
    /\ doc \in RunDocs
    /\ output_format \in {"json", "csv"}
    /\ additional_wait \in AdditionalWaits
    /\ playwright = "none"
    /\ browser = "none"
    /\ output = None
    /\ exc = "none"

NextRun ==
    \/ Load \/ Launch \/ NewContext \/ NewPage \/ Goto \/ Dispatch
    \/ NB_Enter \/ NB_Extract \/ NB_Lookup \/ NB_Click
    \/ UP_Enter \/ UP_Goto \/ UP_Extract
    \/ SC_Enter \/ SC_Check \/ SC_Scroll
    \/ HandlerDone \/ Save \/ Finally \/ WithExit

SpecRun == InitRun /\ [][NextRun]_vars

----------------------------------------------------------------------------
(* The three handlers, each called with a recipe of its type *)

PaginationTypes == {"next_button", "url_pattern", "infinite_scroll"}

\* recipes of the three types with max_pages up to MaxPages
CappedRecipes ==
    {CrawlRecipe(f, PaginationConfig(type, Str(<<"n">>), Str(PageTemplate), n, w)) :
        f \in FieldLists, type \in PaginationTypes,
        n \in -1..MaxPages, w \in WaitValues}

InitHandlers ==
    /\ FieldIdle
    /\ recipe \in CappedRecipes
    /\ pc = HandlerOf(recipe.pagination.type)
    /\ HandlerFresh
    /\ RunIdle

NextHandlers == NextNB \/ NextUP \/ NextSC

SpecHandlers == InitHandlers /\ [][NextHandlers]_vars

\* the handler goes on as long as the calls it makes return
FairHandlers == SpecHandlers /\ WF_vars(NextHandlers)

----------------------------------------------------------------------------
(* extract_data_from_page, called alone *)

\* the selectors of the fields of the records built alone
BuildSelectors == {"s1", "s2"}

\* what a page answers for one of them
BuildAnswers ==
    { Raise, Matches(<<>>), Matches(<<Str(<<>>)>>), Matches(<<Raise>>),
      Matches(<<Str(<<" ", "a">>)>>),
      Matches(<<Str(<<"b">>), Str(<<>>), Str(<<"a">>)>>) }

BuildPages == [BuildSelectors -> BuildAnswers]

\* fields on s1, s2, and s1 then s2; a field whose pattern does not
\* compile; a field with the name of another
LinkField ==
    ExportField("link", "s2", ExtractConfig("attribute", Str(<<"h">>)), <<>>, TRUE, <<>>)

NameField ==
    ExportField("name", "s1", ExtractConfig("html", None), <<Trim>>, FALSE, <<"s2">>)

BrokenField ==
    ExportField("price", "s2", ExtractConfig("text", None), <<Regex(BadPattern)>>, FALSE, <<>>)

TitleAgain ==
    ExportField("title", "s2", ExtractConfig("text", None), <<>>, TRUE, <<>>)

BuildFieldLists ==
    { <<>>, <<TitleField>>, <<TitleField, LinkField>>, <<LinkField, TitleField>>,
      <<NameField, BrokenField, LinkField>>, <<BrokenField, TitleField>>,
      <<TitleField, TitleAgain>> }

InitBuild ==
    /\ field = None
    /\ idx = 0
    /\ queried = <<>>
    /\ seen = <<>>
    /\ answer = None
    /\ fvalue = None
    /\ fpc = "idle"
    /\ page_now \in BuildPages
    /\ TransformIdle
    /\ recipe \in {CrawlRecipe(f, None) : f \in BuildFieldLists}
    /\ pc = "build"
    /\ HandlerFresh
    /\ RunIdle

\* data = extract_data_from_page(page, recipe)
Build ==
    /\ pc = "build"
    /\ data' = extract_data_from_page(page_now, recipe)
    /\ nBuilt' = nBuilt + 1
    /\ pc' = "built"
    /\ UNCHANGED <<fieldVars, recipe, results, reason, nData, failedAt,
                   nbVars, upVars, scVars, runVars>>

NextBuild == Build

SpecBuild == InitBuild /\ [][NextBuild]_vars

----------------------------------------------------------------------------
(* apply_transforms, called alone, one transform at a time *)

\* most transforms applied in a row
MaxApplied == 3

\* longest str given
MaxStrLen == 3

TransformChars == {" ", "a", "1"}

TransformStrings == SeqsUpTo(TransformChars, MaxStrLen)

\* the values given: None, a str, a list of strs
TransformInputs ==
    {None} \cup {Str(t) : t \in TransformStrings} \cup
    {List(l) : l \in SeqsUpTo({<<>>, <<" ">>, <<"a", " ">>, <<" ", "1">>}, 2)}

TransformSteps ==
    { Trim, Default(<<"x">>), Default(<<>>),
      TransformStep("default", None, None, None),
      TransformStep("strip_html", None, None, None),
      TransformStep("extract_number", None, None, None),
      Regex(<<"(", "a", ")">>), Replace(<<"a">>, <<"1">>) }

InitTransform ==
    /\ field = None
    /\ idx = 0
    /\ queried = <<>>
    /\ seen = <<>>
    /\ answer = None
    /\ fvalue = None
    /\ fpc = "idle"
    /\ page_now = None
    /\ tinput \in TransformInputs
    /\ tvalue = tinput
    /\ applied = <<>>
    /\ HandlerIdle

\* value = apply_transform(value, transform), for the next transform
ApplyOne ==
    /\ Len(applied) < MaxApplied
    /\ tvalue # Raise
    /\ \E t \in TransformSteps :
          /\ tvalue' = apply_transform(tvalue, t)
          /\ applied' = Append(applied, t)
    /\ UNCHANGED <<field, idx, queried, seen, answer, fvalue, fpc, page_now,
                   tinput, notField>>

NextTransform == ApplyOne

SpecTransform == InitTransform /\ [][NextTransform]_vars

----------------------------------------------------------------------------
(* Properties of extract_field_value, under SpecField *)

\* the candidate list of the field under extraction
Candidates == <<field.selector>> \o field.fallback_selectors

\* the extract mode names a read: text, html, or attribute with a name
WellFormedExtract(e) ==
    \/ e.type \in {"text", "html"}
    \/ e.type = "attribute" /\ Truthy(e.attribute)

\* the selectors queried so far are the first candidates, each once, in order
QueriedInOrder == queried = SubSeq(Candidates, 1, Len(queried))

\* C7: for a single-valued field, when every candidate matches zero
\* elements the call does not raise and returns None, and the candidates
\* were queried once each, in order.
C7_AbsentWhenNothingMatches ==
    (~field.multiple /\ \A i \in 1..Len(seen) : seen[i] = "none") =>
        /\ fpc # "raised"
        /\ QueriedInOrder
        /\ fpc = "returned" => fvalue = None /\ queried = Candidates

C7_Witness ==
    /\ fpc = "returned"
    /\ ~field.multiple
    /\ Len(field.fallback_selectors) = MaxFallbacks
    /\ Len(seen) = MaxFallbacks + 1
    /\ \A i \in 1..Len(seen) : seen[i] = "none"
    /\ fvalue = None

\* C8: for a multi-valued field, when every element matched by every
\* candidate reads as an empty raw value, the call returns the empty list
\* (not None, not a list of empty strings), whatever the transforms.
C8_EmptyListWhenAllRawEmpty ==
    (/\ field.multiple
     /\ fpc # "loop"
     /\ \A i \in 1..Len(seen) : seen[i] \in {"none", "empty"}) =>
        /\ fpc = "returned"
        /\ fvalue = List(<<>>)
        /\ queried = Candidates

C8_Witness ==
    /\ fpc = "returned"
    /\ field.multiple
    /\ field.transforms = <<Trim, Default(<<"x">>)>>
    /\ Len(seen) = MaxFallbacks + 1
    /\ \A i \in 1..Len(seen) : seen[i] = "empty"
    /\ Len(answer.elems) = MaxElems
    /\ fvalue = List(<<>>)

\* C9: for a single-valued field with a well-formed extract mode, when no
\* collaborator call fails, the first candidate that matches an element
\* ends the call: its transformed raw value is returned, and no later
\* candidate is queried.
C9_FirstMatchReturns ==
    (/\ ~field.multiple
     /\ WellFormedExtract(field.extract)
     /\ seen # <<>>
     /\ \A i \in 1..Len(seen) : seen[i] # "error"
     /\ seen[Len(seen)] \in {"empty", "value"}) =>
        /\ fpc = "returned"
        /\ fvalue = apply_transforms(Str(OrEmpty(answer.elems[1])),
                                     field.transforms)
        /\ \A i \in 1..(Len(seen) - 1) : seen[i] = "none"

\* every regex or replace pattern of the transforms compiles
PatternsCompile(transforms) ==
    \A i \in 1..Len(transforms) :
        (transforms[i].type \in {"regex", "replace"}
            /\ Truthy(transforms[i].pattern)) =>
        ReCompiles(transforms[i].pattern.s)

\* C9 with the patterns of the field's transforms all compiling: it holds
C9_FirstMatchReturnsIfPatternsCompile ==
    PatternsCompile(field.transforms) => C9_FirstMatchReturns

\* the last answer made the statements under try raise
CandidateRaised == seen # <<>> /\ TryBody(field, answer).kind = "raise"

\* C10: no exception leaves extract_field_value: a candidate whose lookup,
\* read or transform raises counts as failed, the loop goes on to the next
\* candidate in order, and when the last one fails so the call returns None
\* (single-valued) or [] (multi-valued).
C10_FieldErrorsNeverEscape ==
    /\ fpc # "raised"
    /\ QueriedInOrder
    /\ CandidateRaised =>
          /\ idx = Len(seen) + 1
          /\ fpc = "returned" =>
                /\ queried = Candidates
                /\ fvalue = IF field.multiple THEN List(<<>>) ELSE None

C10_Witness ==
    /\ fpc = "returned"
    /\ field.multiple
    /\ seen = <<"error", "value">>
    /\ CandidateRaised
    /\ fvalue = List(<<>>)

----------------------------------------------------------------------------
(* Properties of handle_next_button_pagination, under SpecNext *)

\* max_pages is 10, the next button was found by the first three lookups
\* and by none after, never disabled, and every record built had data
ThreeMatchesThenNone ==
    /\ recipe.pagination # None
    /\ recipe.pagination.max_pages = 10
    /\ lookups = <<"match", "match", "match", "none">>
    /\ nData = nBuilt

\* C1, as stated: with maxPages=10 and a next button that matches on the
\* first 3 lookups only, the result holds 3 records, no more than the
\* selector matched, and the loop ends with NoNextButton
C1_ThreeRecords ==
    ThreeMatchesThenNone =>
        /\ pc = "returned"
        /\ reason = "NoNextButton"
        /\ Len(results) = 3

\* C1, amended: with maxPages=10 and a next button that matches on the
\* first 3 lookups only, the result holds the 4 records of the 4 page
\* states seen, the last of them the page without the button, after 3
\* clicks, and the loop ends with NoNextButton
C1_FourRecords ==
    ThreeMatchesThenNone =>
        /\ pc = "returned"
        /\ reason = "NoNextButton"
        /\ clicks = 3
        /\ nBuilt = 4
        /\ Len(results) = 4
        /\ results[4] = data

C1_Witness ==
    /\ ThreeMatchesThenNone
    /\ pc = "returned"
    /\ Len(results) = 4

----------------------------------------------------------------------------
(* Properties of handle_url_pattern_pagination, under SpecUrl *)

\* no value of the record is more than None, '' or []
NoData(d) == \A i \in 1..Len(d) : d[i].v \in {None, Str(<<>>), List(<<>>)}

\* the number of the first page whose record has no data, 0 if none has
FirstEmpty ==
    IF \E i \in 1..Len(built) : NoData(built[i])
    THEN CHOOSE i \in 1..Len(built) :
             NoData(built[i]) /\ \A j \in 1..(i - 1) : ~NoData(built[j])
    ELSE 0

\* the urls of the pages of "u{page}"
PageUrls ==
    << Str(<<"u", "1">>), Str(<<"u", "2">>), Str(<<"u", "3">>),
       Str(<<"u", "4">>), Str(<<"u", "5">>), Str(<<"u", "6">>) >>

\* C2: when pages 1..k-1 have data and page k has none, the results are the
\* records of pages 1..k-1 in page order, the loop ends with EmptyPage, and
\* pages 1..k are the only ones navigated to, k being at most max_pages
C2_StopsAtFirstEmptyPage ==
    FirstEmpty # 0 =>
        /\ pc = "returned"
        /\ reason = "EmptyPage"
        /\ FirstEmpty <= recipe.pagination.max_pages
        /\ built = SubSeq(built, 1, FirstEmpty)
        /\ results = SubSeq(built, 1, FirstEmpty - 1)
        /\ Len(navs) = FirstEmpty
        /\ recipe.pagination.url_template = Str(PageTemplate)
              => navs = SubSeq(PageUrls, 1, FirstEmpty)

\* max_pages is 5 and page 3 is the empty one
C2_Witness ==
    /\ recipe.pagination # None
    /\ recipe.pagination.max_pages = 5
    /\ recipe.pagination.url_template = Str(PageTemplate)
    /\ FirstEmpty = 3
    /\ pc = "returned"
    /\ Len(results) = 2

----------------------------------------------------------------------------
(* Properties of handle_infinite_scroll_pagination, under SpecScroll *)

\* C3: with a multi-valued field and 20 scrolls at most, once the length
\* of the field has stayed at the same non-zero value for 3 records in a
\* row the loop has ended with Stalled, before 20 scrolls
C3_StallsAfterThreeWithoutGrowth ==
    ( /\ recipe.pagination # None
      /\ recipe.pagination.max_pages = 20
      /\ \E i \in 1..Len(recipe.fields) : recipe.fields[i].multiple
      /\ prevLen > 0
      /\ stale >= MaxNoNewContent )
    => /\ pc = "returned"
       /\ reason = "Stalled"
       /\ scroll_attempts < 20

----------------------------------------------------------------------------
(* Properties of execute_recipe, under SpecRun *)

\* C4: a pagination step that raises ends the pagination loop only: the
\* results stay as they were, no exception leaves the handler, and a run
\* that ends without exception has written the results
C4_PaginationErrorsEndOnlyTheLoop ==
    failedAt # None =>
        /\ pc # "raised"
        /\ exc # "pagination"
        /\ results = failedAt.items
        /\ (pc = "done" /\ exc = "none") =>
              \/ output = Written(output_format, results)
              \/ output_format = "csv" /\ results = <<>>

\* C5: execute_recipe is never left with the browser launched and not
\* closed
C5_BrowserClosedOnEveryExit == pc = "done" => browser # "open"

\* some transform of some field of the document has a pattern that does
\* not compile
BadPatternIn(d) ==
    /\ d # Malformed
    /\ \E i \in 1..Len(d.fields) : ~PatternsCompile(d.fields[i].transforms)

\* C6: a recipe with a regex or replace pattern that does not compile is
\* rejected when it is loaded: the browser is never launched for it and no
\* page is navigated to
C6_BadPatternRejectedAtLoad ==
    BadPatternIn(doc) =>
        /\ pc \in {"load", "done"}
        /\ browser = "none"
        /\ pc = "done" => exc = "load"

\* the document declares no pagination
NoPaginationDeclared == doc # Malformed /\ "pagination" \notin DOMAIN doc

\* C11: for a recipe without pagination, once the records are gathered the
\* results are the one record built from the page loaded first, with or
\* without data, and nothing was clicked, scrolled or navigated to
C11_OneRecordWithoutPagination ==
    (NoPaginationDeclared /\ pc \in {"save", "finally", "with_exit", "done"}
        /\ exc \in {"none", "write"}) =>
        /\ nBuilt = 1
        /\ results = <<data>>
        /\ lookups = <<>> /\ clicks = 0
        /\ navs = <<>>
        /\ scroll_attempts = 0
        /\ (pc = "done" /\ exc = "none" /\ output_format = "json")
              => output = [format |-> "json", rows |-> <<data>>]

\* the one record has no data
C11_Witness ==
    /\ NoPaginationDeclared
    /\ pc = "done"
    /\ exc = "none"
    /\ Len(results) = 1
    /\ NoData(results[1])

----------------------------------------------------------------------------
(* Properties of extract_data_from_page, under SpecBuild *)

\* the field names of the recipe are unique, as a recipe requires
UniqueNames ==
    \A i, j \in 1..Len(recipe.fields) :
        recipe.fields[i].field_name = recipe.fields[j].field_name => i = j

\* every candidate of the field fails on the page: its lookup or a read
\* raises, it matches nothing, or a transform raises on what it matched
EveryCandidateFails(f) ==
    \A i \in 1..(1 + Len(f.fallback_selectors)) :
        LET a == page_now[(<<f.selector>> \o f.fallback_selectors)[i]]
        IN  \/ a = Raise
            \/ a.elems = <<>>
            \/ \E n \in 1..(IF f.multiple THEN Len(a.elems) ELSE 1) :
                   a.elems[n] = Raise
            \/ ~PatternsCompile(f.transforms)

\* the record of the page for the one field f
Alone(f) == extract_data_from_page(page_now, CrawlRecipe(<<f>>, None))

\* C12: the record has one entry per field, in the order of the fields; a
\* field all of whose candidates fail has None, or [] when multiple; and
\* the value of each field is the one it has in a record built for that
\* field alone, whatever became of the other fields
C12_OneEntryPerFieldIndependently ==
    (pc = "built" /\ UniqueNames) =>
        /\ Len(data) = Len(recipe.fields)
        /\ \A j \in 1..Len(recipe.fields) :
              /\ data[j].k = recipe.fields[j].field_name
              /\ data[j].v = Alone(recipe.fields[j])[1].v
              /\ EveryCandidateFails(recipe.fields[j]) =>
                    data[j].v = (IF recipe.fields[j].multiple
                                 THEN List(<<>>) ELSE None)

\* three fields, the second failed, the third has a value
C12_Witness ==
    /\ pc = "built"
    /\ UniqueNames
    /\ Len(recipe.fields) = 3
    /\ EveryCandidateFails(recipe.fields[2])
    /\ Len(data) = 3
    /\ data[2].v = None
    /\ data[3].v \notin {None, List(<<>>)}

----------------------------------------------------------------------------
(* Properties of apply_transform, under SpecTransform *)

\* some character of s is not whitespace
NonEmptyTrimmed(s) == \E i \in 1..Len(s) : s[i] \notin Whitespace

\* the strs of a value: those of a list, the one of a str, '' for None
StrsOf(v) ==
    IF v = None THEN << <<>> >>
    ELSE IF v.tag = "list" THEN v.items
    ELSE <<v.s>>

\* C13: a trim applied right after a trim leaves the value as it is, and
\* a default, whatever its default_value, leaves as it is every str, or
\* element of a list, that is non-empty after trimming
C13_TrimIdempotentDefaultNoOp ==
    [][ /\ ( /\ applied # <<>>
             /\ applied[Len(applied)] = Trim
             /\ applied' = Append(applied, Trim) )
           => tvalue' = tvalue
        /\ ( /\ Len(applied') = Len(applied) + 1
             /\ applied'[Len(applied')].type = "default" )
           => /\ Len(StrsOf(tvalue')) = Len(StrsOf(tvalue))
              /\ \A i \in 1..Len(StrsOf(tvalue)) :
                    NonEmptyTrimmed(StrsOf(tvalue)[i]) =>
                        StrsOf(tvalue')[i] = StrsOf(tvalue)[i]
      ]_vars

\* a default on a str with blanks around it, then two trims that strip
\* them
C13_Witness ==
    /\ tinput = Str(<<" ", "a", " ">>)
    /\ applied = <<Default(<<"x">>), Trim, Trim>>
    /\ tvalue = Str(<<"a">>)

----------------------------------------------------------------------------
(* More properties of handle_next_button_pagination, under SpecNext *)

\* the attributes of the button found were read without an exception
AttrsRead == attrs # None /\ attrs.disabled # Raise /\ attrs.aria # Raise

\* C14: a button found with a disabled or an aria-disabled attribute, of
\* any value or none, ends the loop with ButtonDisabled and is not clicked;
\* a button found with neither is about to be clicked
C14_DisabledButtonNeverClicked ==
    AttrsRead =>
        IF attrs.disabled # None \/ attrs.aria # None
        THEN pc = "returned" /\ reason = "ButtonDisabled"
        ELSE pc = "nb_click"

----------------------------------------------------------------------------
(* Properties of the three handlers, under SpecRun *)

\* the recipe has one of the three pagination strategies
Paginated(type) ==
    /\ recipe # None
    /\ recipe.pagination # None
    /\ recipe.pagination.type = type

\* C15: under each of the three strategies every record of the results
\* has data at every point of the run; and the next-button loop, having
\* built a record without data, appends nothing and goes on to look for
\* the button
C15_OnlyRecordsWithData ==
    [][ /\ ( \/ Paginated("next_button")
             \/ Paginated("url_pattern")
             \/ Paginated("infinite_scroll") )
           => \A i \in 1..Len(results') : ~NoData(results'[i])
        /\ ( /\ pc = "nb_loop"
             /\ nBuilt' = nBuilt + 1
             /\ NoData(data')
             /\ Truthy(recipe.pagination.selector) )
           => /\ results' = results
              /\ pc' = "nb_lookup"
      ]_vars

\* the second page of a next-button run has no data: the results hold the
\* first record only and the button is looked up
C15_Witness ==
    /\ Paginated("next_button")
    /\ pc = "nb_lookup"
    /\ nBuilt = 2
    /\ NoData(data)
    /\ Len(results) = 1

----------------------------------------------------------------------------
(* More properties of handle_infinite_scroll_pagination, under SpecScroll *)

\* C16: no two adjacent records of the results are equal, and a record
\* with data that differs from the last one appended is appended, also
\* when it equals an earlier one
C16_NoAdjacentDuplicates ==
    [][ /\ \A i \in 1..(Len(results') - 1) : results'[i] # results'[i + 1]
        /\ ( /\ pc = "sc_loop"
             /\ pc' = "sc_scroll"
             /\ ~NoData(data')
             /\ (results = <<>> \/ data' # results[Len(results)]) )
           => results' = Append(results, data')
        /\ ( /\ pc = "sc_loop"
             /\ pc' = "sc_scroll"
             /\ results # <<>>
             /\ data' = results[Len(results)] )
           => results' = results
      ]_vars

\* the third record appended equals the first
C16_Witness ==
    /\ Len(results) = 3
    /\ results[3] = results[1]
    /\ results[2] # results[1]
    /\ pc = "sc_scroll"

----------------------------------------------------------------------------
(* Properties of the three handlers, under FairHandlers *)

\* max_pages, or 0 when it is less
Cap == IF recipe.pagination.max_pages > 0 THEN recipe.pagination.max_pages ELSE 0

\* no handler goes beyond max_pages: records built and clicks made by
\* next-button, navigations by URL-template, scrolls by infinite-scroll,
\* and records of the results for all three
WithinCap ==
    /\ Len(results) <= Cap
    /\ nBuilt <= Cap
    /\ clicks <= Cap
    /\ Len(lookups) <= Cap
    /\ Len(navs) <= Cap
    /\ scroll_attempts <= Cap

\* the handler has returned, or an exception has left it
HandlerLeft == pc \in {"returned", "raised"}

\* C17: every handler is left in the end, and up to then it stays within
\* max_pages in records built, clicks, navigations, scrolls and records of
\* the results; with max_pages 0 or less the results are empty
C17_HandlersEndWithinCap == []WithinCap /\ <>HandlerLeft

\* the next-button loop has returned after max_pages records and as many
\* clicks
C17_Witness ==
    /\ recipe.pagination.type = "next_button"
    /\ recipe.pagination.max_pages = MaxPages
    /\ pc = "returned"
    /\ Len(results) = MaxPages
    /\ clicks = MaxPages

----------------------------------------------------------------------------
(* More properties of extract_field_value, under SpecField *)

\* the raw values of an answer that are neither None nor ''
NonEmptyRaws(a) == SelectSeq(a.elems, LAMBDA v : v # None /\ v # Str(<<>>))

\* C18: for a multi-valued field whose extract mode names a read, the
\* first candidate whose elements are read without error and give some
\* non-empty raw value ends the call: the result is the list of its
\* non-empty raw values, in order and as many, each transformed, and no
\* earlier candidate gave a value
C18_FirstCandidateWithValues ==
    (/\ field.multiple
     /\ WellFormedExtract(field.extract)
     /\ seen # <<>>
     /\ seen[Len(seen)] = "value") =>
        /\ fpc = "returned"
        /\ \A i \in 1..(Len(seen) - 1) : seen[i] # "value"
        /\ fvalue.tag = "list"
        /\ Len(fvalue.items) = Len(NonEmptyRaws(answer))
        /\ fvalue = apply_transforms(ListOf(NonEmptyRaws(answer)),
                                     field.transforms)

\* C18 with the patterns of the field's transforms all compiling: it holds
C18_FirstCandidateWithValuesIfPatternsCompile ==
    PatternsCompile(field.transforms) => C18_FirstCandidateWithValues

----------------------------------------------------------------------------
(* Properties of the scroll loop without multi-valued field, under SpecScroll *)

\* no field of the recipe is multi-valued
ScalarOnly == \A i \in 1..Len(recipe.fields) : ~recipe.fields[i].multiple

\* C19: without a multi-valued field, a record with data sets the count
\* of records without new content to 0 and a record without data adds 1 to
\* it; the loop ends with Stalled in the very turn the count reaches 3,
\* without appending or scrolling, and only then; a scroll is made with
\* the count below 3 only
C19_StallsAtThreeEmptyRecords ==
    [][ /\ ( /\ ScalarOnly
             /\ pc = "sc_loop"
             /\ nBuilt' = nBuilt + 1 )
           => /\ no_new_content_count' =
                    (IF NoData(data') THEN no_new_content_count + 1 ELSE 0)
              /\ IF no_new_content_count' >= 3
                 THEN /\ pc' = "returned"
                      /\ reason' = "Stalled"
                      /\ no_new_content_count' = 3
                      /\ results' = results
                      /\ scroll_attempts' = scroll_attempts
                 ELSE pc' = "sc_scroll"
        /\ (ScalarOnly /\ recipe.pagination # None /\ reason' = "Stalled")
           => no_new_content_count' = 3
        /\ (ScalarOnly /\ pc' = "sc_scroll") => no_new_content_count' < 3
      ]_vars

\* a record with data, then three without
C19_Witness ==
    /\ ScalarOnly
    /\ pc = "returned"
    /\ reason = "Stalled"
    /\ no_new_content_count = 3
    /\ Len(results) = 1
    /\ nBuilt = 4

----------------------------------------------------------------------------
(* The order of the steps of handle_next_button_pagination, under SpecNext *)

\* C20: the record of a page is built before the button is looked up on
\* it, and max_pages is tested after the click only: a loop that ends on
\* max_pages has clicked max_pages times and built max_pages records, the
\* page reached by the last click being left unread
C20_ClicksCanEqualPagesRead ==
    /\ pc = "nb_lookup" => nBuilt = Len(lookups) + 1
    /\ pc = "nb_click" => nBuilt = Len(lookups)
    /\ clicks <= nBuilt
    /\ (recipe.pagination # None /\ recipe.pagination.max_pages >= 1) =>
          /\ clicks = recipe.pagination.max_pages
                => nBuilt = recipe.pagination.max_pages
          /\ (pc = "returned" /\ reason = "MaxPages")
                => /\ clicks = recipe.pagination.max_pages
                   /\ nBuilt = recipe.pagination.max_pages
                   /\ Len(lookups) = recipe.pagination.max_pages

\* ten pages read, ten clicks
C20_Witness ==
    /\ recipe.pagination # None
    /\ recipe.pagination.max_pages = 10
    /\ pc = "returned"
    /\ reason = "MaxPages"
    /\ clicks = 10
    /\ nBuilt = 10

====
